---- MODULE Spec2Model ----
(***************************************************************************)
(* Share as ZIP (obsidian-share-as-zip), src/main.ts lines 52-462: the     *)
(* command shareNoteAsZip, the traversal collectLinkedNotes, the exclusion *)
(* checks, the header filter, the link extractor and the settings tab.     *)
(*                                                                         *)
(* A JavaScript string is a sequence of one-character strings, so that     *)
(* toLowerCase, trim, split, startsWith, includes and the two regular      *)
(* expressions are computed character by character as the code does.       *)
(***************************************************************************)
EXTENDS Integers, Sequences, FiniteSets, TLC

(***************************************************************************)
(* String primitives of the JavaScript runtime used by main.ts.            *)
(***************************************************************************)
UpperChars == <<"A", "B", "C", "D", "E", "F", "G", "H", "I", "J", "K", "L", "M",
                "N", "O", "P", "Q", "R", "S", "T", "U", "V", "W", "X", "Y", "Z">>

LowerChars == <<"a", "b", "c", "d", "e", "f", "g", "h", "i", "j", "k", "l", "m",
                "n", "o", "p", "q", "r", "s", "t", "u", "v", "w", "x", "y", "z">>

WhiteSpace == {" ", "\t", "\n"}

Range(seq) == {seq[i] : i \in 1..Len(seq)}

LowerChar(c) ==
    IF \E i \in 1..Len(UpperChars) : UpperChars[i] = c
    THEN LowerChars[CHOOSE i \in 1..Len(UpperChars) : UpperChars[i] = c]
    ELSE c

\* String.prototype.toLowerCase
toLowerCase(str) == [i \in 1..Len(str) |-> LowerChar(str[i])]

\* String.prototype.trim
trim(str) ==
    LET keep == {i \in 1..Len(str) : str[i] \notin WhiteSpace}
    IN  IF keep = {} THEN <<>>
        ELSE LET lo == CHOOSE i \in keep : \A j \in keep : i <= j
                 hi == CHOOSE i \in keep : \A j \in keep : j <= i
             IN  SubSeq(str, lo, hi)

\* String.prototype.startsWith
startsWith(str, prefix) ==
    /\ Len(prefix) <= Len(str)
    /\ SubSeq(str, 1, Len(prefix)) = prefix

\* String.prototype.includes
includes(str, part) ==
    \E i \in 1..(Len(str) - Len(part) + 1) : SubSeq(str, i, i + Len(part) - 1) = part

\* Array.prototype.includes / a membership test on a list
Contains(list, x) == \E i \in 1..Len(list) : list[i] = x

RECURSIVE SplitFrom(_, _, _, _)
SplitFrom(str, sep, i, cur) ==
    IF i > Len(str) THEN <<cur>>
    ELSE IF str[i] = sep THEN <<cur>> \o SplitFrom(str, sep, i + 1, <<>>)
    ELSE SplitFrom(str, sep, i + 1, Append(cur, str[i]))

\* String.prototype.split with a one-character separator
split(str, sep) == SplitFrom(str, sep, 1, <<>>)

RECURSIVE join(_, _)
\* Array.prototype.join with a one-character separator
join(parts, sep) ==
    IF Len(parts) = 0 THEN <<>>
    ELSE IF Len(parts) = 1 THEN parts[1]
    ELSE parts[1] \o <<sep>> \o join(Tail(parts), sep)

RECURSIVE FilterSeq(_, _)
\* the elements of seq at the positions idx, in the order of idx
FilterSeq(seq, idx) ==
    IF idx = <<>> THEN <<>> ELSE <<seq[Head(idx)]>> \o FilterSeq(seq, Tail(idx))

(***************************************************************************)
(* TFile: a file is identified by its vault path; name, basename and       *)
(* extension are the fields Obsidian derives from the path.                *)
(***************************************************************************)
NoFile == <<>>

FileName(path) ==
    LET segs == split(path, "/") IN segs[Len(segs)]

FileExtension(path) ==
    LET name == FileName(path)
        dots == {i \in 2..Len(name) : name[i] = "."}
    IN  IF dots = {} THEN <<>>
        ELSE SubSeq(name, (CHOOSE i \in dots : \A j \in dots : j <= i) + 1, Len(name))

FileBasename(path) ==
    LET name == FileName(path)
        ext == FileExtension(path)
    IN  IF ext = <<>> THEN name ELSE SubSeq(name, 1, Len(name) - Len(ext) - 1)

(***************************************************************************)
(* The settings: four lists of strings.                                    *)
(***************************************************************************)
DEFAULT_SETTINGS ==
    [excludedFrontmatterKeys |-> <<>>,
     excludedHeaders |-> <<>>,
     excludedFolders |-> <<>>,
     excludedFiles |-> <<>>]

\* ShareAsZipSettingTab.parseCommaSeparated
parseCommaSeparated(value) ==
    LET items == split(value, ",")
        trimmed == [i \in 1..Len(items) |-> trim(items[i])]
    IN  SelectSeq(trimmed, LAMBDA item : Len(item) > 0)

(***************************************************************************)
(* isBinaryFile                                                            *)
(***************************************************************************)
binaryExtensions ==
    << <<"p", "d", "f">>, <<"j", "p", "g">>, <<"j", "p", "e", "g">>, <<"p", "n", "g">>, <<"g", "i", "f">>, <<"b", "m", "p">>, <<"w", "e", "b", "p">>, <<"s", "v", "g">>,
       <<"m", "p", "3">>, <<"w", "a", "v">>, <<"o", "g", "g">>, <<"m", "p", "4">>, <<"a", "v", "i">>, <<"m", "o", "v">>, <<"m", "k", "v">>, <<"w", "e", "b", "m">>,
       <<"z", "i", "p">>, <<"r", "a", "r">>, <<"7", "z">>, <<"t", "a", "r">>, <<"g", "z">>,
       <<"d", "o", "c">>, <<"d", "o", "c", "x">>, <<"x", "l", "s">>, <<"x", "l", "s", "x">>, <<"p", "p", "t">>, <<"p", "p", "t", "x">>,
       <<"e", "x", "e">>, <<"d", "l", "l">>, <<"s", "o">>, <<"d", "y", "l", "i", "b">> >>

\* isBinaryFile without line 121's toLowerCase
isBinaryFileCaseSensitive(file) ==
    Contains(binaryExtensions, FileExtension(file))

isBinaryFile(file) ==
    LET extension == toLowerCase(FileExtension(file))
    IN  Contains(binaryExtensions, extension)

(***************************************************************************)
(* isFileInExcludedFolder                                                  *)
(***************************************************************************)
\* isFileInExcludedFolder with a plain substring test in place of lines 182-184
isFileInExcludedFolderSubstring(file, s) ==
    \E k \in 1..Len(s.excludedFolders) :
        /\ trim(toLowerCase(s.excludedFolders[k])) # <<>>
        /\ includes(toLowerCase(file), trim(toLowerCase(s.excludedFolders[k])))

isFileInExcludedFolder(file, s) ==
    IF Len(s.excludedFolders) = 0 THEN FALSE
    ELSE LET filePath == toLowerCase(file)
         IN  \E k \in 1..Len(s.excludedFolders) :
                LET folderPattern == trim(toLowerCase(s.excludedFolders[k]))
                IN  /\ folderPattern # <<>>
                    /\ \/ startsWith(filePath, folderPattern \o <<"/">>)
                       \/ includes(filePath, <<"/">> \o folderPattern \o <<"/">>)
                       \/ filePath = folderPattern

(***************************************************************************)
(* isFileNameExcluded.  The wildcard branch builds the regular expression  *)
(* '^' + pattern.replace(/\*/g, '.*') + '$' and tests the file name: in    *)
(* the expression '.' stands for any character and 'x*' for any run of x.  *)
(* Patterns are drawn from an alphabet whose only regular-expression       *)
(* metacharacters are '.' and '*'.                                         *)
(***************************************************************************)
RECURSIVE replaceStars(_)
\* pattern.replace(/\*/g, '.*')
replaceStars(pattern) ==
    IF pattern = <<>> THEN <<>>
    ELSE IF Head(pattern) = "*" THEN <<".", "*">> \o replaceStars(Tail(pattern))
    ELSE <<Head(pattern)>> \o replaceStars(Tail(pattern))

AtomMatches(atom, c) == atom = "." \/ atom = c

RECURSIVE regexTestFrom(_, _, _, _)
\* whether regex[i..] matches str[j..] to its end (the expression is anchored)
regexTestFrom(regex, i, str, j) ==
    IF i > Len(regex) THEN j > Len(str)
    ELSE IF i < Len(regex) /\ regex[i + 1] = "*"
    THEN \/ regexTestFrom(regex, i + 2, str, j)
         \/ /\ j <= Len(str)
            /\ AtomMatches(regex[i], str[j])
            /\ regexTestFrom(regex, i, str, j + 1)
    ELSE /\ j <= Len(str)
         /\ AtomMatches(regex[i], str[j])
         /\ regexTestFrom(regex, i + 1, str, j + 1)

\* new RegExp('^' + regexPattern + '$').test(str)
regexTest(regexPattern, str) == regexTestFrom(regexPattern, 1, str, 1)

\* isFileNameExcluded matching a pattern anywhere in the name, line 194 left out
isFileNameExcludedBySubstring(file, s) ==
    \E k \in 1..Len(s.excludedFiles) :
        includes(toLowerCase(FileName(file)), trim(toLowerCase(s.excludedFiles[k])))

isFileNameExcluded(file, s) ==
    IF Len(s.excludedFiles) = 0 THEN FALSE
    ELSE LET fileName == toLowerCase(FileName(file))
         IN  \E k \in 1..Len(s.excludedFiles) :
                LET pattern == trim(toLowerCase(s.excludedFiles[k]))
                IN  /\ pattern # <<>>
                    /\ IF Contains(pattern, "*")
                       THEN regexTest(replaceStars(pattern), fileName)
                       ELSE fileName = pattern

(***************************************************************************)
(* isFrontmatterExcluded.  A frontmatter value is a tagged value           *)
(* [t |-> "bool" | "str" | "num", v |-> its text], so that === tells       *)
(* true from "true" and 1 from "1".  NoCache is an absent file cache or an *)
(* absent frontmatter.                                                     *)
(***************************************************************************)
NoCache == [none |-> TRUE]

FmTrue == [t |-> "bool", v |-> "true"]
FmFalse == [t |-> "bool", v |-> "false"]
FmStr(v) == [t |-> "str", v |-> v]
FmNum(v) == [t |-> "num", v |-> v]

\* isFrontmatterExcluded with line 217 testing the value's truthiness (!!value)
isFrontmatterExcludedTruthy(frontmatter, s) ==
    /\ frontmatter # NoCache
    /\ \E k \in 1..Len(s.excludedFrontmatterKeys) :
        LET key == s.excludedFrontmatterKeys[k]
        IN  /\ key \in DOMAIN frontmatter
            /\ frontmatter[key] \notin {FmFalse, FmStr(""), FmNum("0")}

isFrontmatterExcluded(frontmatter, s) ==
    IF Len(s.excludedFrontmatterKeys) = 0 THEN FALSE
    ELSE IF frontmatter = NoCache THEN FALSE
    ELSE \E k \in 1..Len(s.excludedFrontmatterKeys) :
            LET key == s.excludedFrontmatterKeys[k]
            IN  /\ key \in DOMAIN frontmatter
                /\ LET value == frontmatter[key]
                   IN  \/ value = FmTrue
                       \/ value = FmStr("true")
                       \/ value = FmNum("1")
                       \/ value = FmStr("1")

(***************************************************************************)
(* shouldExcludeFile: the three checks, short-circuited in this order.     *)
(***************************************************************************)
shouldExcludeFile(file, frontmatter, s) ==
    IF isFileInExcludedFolder(file, s) THEN TRUE
    ELSE IF isFileNameExcluded(file, s) THEN TRUE
    ELSE IF isFrontmatterExcluded(frontmatter, s) THEN TRUE
    ELSE FALSE

(***************************************************************************)
(* filterContentByHeaders.  headerMatch is line.match(/^(#{1,6})\s+(.+)$/):*)
(* one to six leading '#', at least one white-space character, at least    *)
(* one more character (the last white-space character when nothing else    *)
(* follows).  Lines hold no carriage return.                               *)
(***************************************************************************)
NoMatch == [matched |-> FALSE, level |-> 0, text |-> <<>>]

LeadingRun(line, from, chars) ==
    LET stop == {i \in from..Len(line) : line[i] \notin chars}
    IN  IF stop = {} THEN Len(line) - from + 1
        ELSE (CHOOSE i \in stop : \A j \in stop : i <= j) - from

headerMatch(line) ==
    LET hashes == LeadingRun(line, 1, {"#"})
        spaces == LeadingRun(line, hashes + 1, WhiteSpace)
        rest == SubSeq(line, hashes + spaces + 1, Len(line))
    IN  IF hashes < 1 \/ hashes > 6 \/ spaces < 1 THEN NoMatch
        ELSE IF rest # <<>> THEN [matched |-> TRUE, level |-> hashes, text |-> rest]
        ELSE IF spaces >= 2
        THEN [matched |-> TRUE, level |-> hashes, text |-> <<line[Len(line)]>>]
        ELSE NoMatch

\* the test of lines 237-239 on a matched header line
headerShouldExclude(line, s) ==
    LET headerText == trim(headerMatch(line).text)
    IN  \E k \in 1..Len(s.excludedHeaders) :
            includes(toLowerCase(headerText), toLowerCase(s.excludedHeaders[k]))

\* line 245 with < in place of <=
stopSkippingStrict(skipSection, level, currentHeaderLevel) ==
    skipSection /\ level < currentHeaderLevel

\* line 245: a header that does not match ends the skip at the same or a higher level
stopSkipping(skipSection, level, currentHeaderLevel) ==
    skipSection /\ level <= currentHeaderLevel

RECURSIVE filterLoop(_, _, _, _, _, _)
\* the loop of lines 229-254: the indices of the lines pushed to filteredLines
filterLoop(lines, i, skipSection, currentHeaderLevel, filteredLines, s) ==
    IF i > Len(lines) THEN filteredLines
    ELSE LET m == headerMatch(lines[i])
         IN  IF m.matched /\ headerShouldExclude(lines[i], s)
             THEN filterLoop(lines, i + 1, TRUE, m.level, filteredLines, s)
             ELSE LET skip == IF m.matched /\ stopSkipping(skipSection, m.level,
                                                                currentHeaderLevel)
                              THEN FALSE ELSE skipSection
                  IN  filterLoop(lines, i + 1, skip, currentHeaderLevel,
                                 IF skip THEN filteredLines
                                 ELSE Append(filteredLines, i), s)

\* the indices (into content.split('\n')) of the lines filterContentByHeaders keeps
filteredLineNumbers(content, s) ==
    LET lines == split(content, "\n")
    IN  IF Len(s.excludedHeaders) = 0 THEN [i \in 1..Len(lines) |-> i]
        ELSE filterLoop(lines, 1, FALSE, 0, <<>>, s)

filterContentByHeaders(content, s) ==
    IF Len(s.excludedHeaders) = 0 THEN content
    ELSE join(FilterSeq(split(content, "\n"), filteredLineNumbers(content, s)), "\n")

(***************************************************************************)
(* extractLinks.  linkTargets is the scan of                               *)
(* /\[\[([^|\]]+)(?:\|[^\]]+)?\]\]/g over the content: the first group of  *)
(* every match, left to right, each match resuming after the previous one. *)
(***************************************************************************)
\* the match of the pattern starting at position i: [found, target, next]
linkMatchAt(content, i) ==
    LET n == Len(content)
        target == LeadingRun(content, i + 2, {content[k] : k \in 1..n} \ {"|", "]"})
        afterTarget == i + 2 + target
        display == IF afterTarget <= n /\ content[afterTarget] = "|"
                   THEN LeadingRun(content, afterTarget + 1,
                                   {content[k] : k \in 1..n} \ {"]"})
                   ELSE 0
        close == IF display > 0 THEN afterTarget + 1 + display ELSE afterTarget
    IN  IF /\ i + 1 <= n
           /\ content[i] = "[" /\ content[i + 1] = "["
           /\ target >= 1
           /\ close + 1 <= n
           /\ content[close] = "]" /\ content[close + 1] = "]"
        THEN [found |-> TRUE,
              target |-> SubSeq(content, i + 2, afterTarget - 1),
              next |-> close + 2]
        ELSE [found |-> FALSE, target |-> <<>>, next |-> i + 1]

RECURSIVE linkTargetsFrom(_, _)
linkTargetsFrom(content, i) ==
    IF i > Len(content) THEN <<>>
    ELSE LET m == linkMatchAt(content, i)
         IN  IF m.found THEN <<m.target>> \o linkTargetsFrom(content, m.next)
             ELSE linkTargetsFrom(content, m.next)

linkTargets(content) == linkTargetsFrom(content, 1)

\* metadataCache.getFirstLinkpathDest(linkpath, ''): the file of the vault the link
\* path names by its path, its name or its basename; NoFile when there is none
getFirstLinkpathDest(files, linkpath) ==
    LET hits == {f \in files : \/ f = linkpath
                               \/ FileName(f) = linkpath
                               \/ FileBasename(f) = linkpath}
    IN  IF hits = {} THEN NoFile ELSE CHOOSE f \in hits : TRUE

RECURSIVE Unique(_)
\* a list without the repetitions of its elements
Unique(list) ==
    IF list = <<>> THEN <<>>
    ELSE LET init == Unique(SubSeq(list, 1, Len(list) - 1))
             last == list[Len(list)]
         IN  IF \E i \in 1..Len(init) : init[i] = last THEN init ELSE Append(init, last)

\* extractLinks pushing a file only when linkedFiles does not hold it yet
extractLinksUnique(content, files) ==
    LET names == linkTargetsFrom(content, 1)
        dest == [k \in 1..Len(names) |-> getFirstLinkpathDest(files, names[k])]
    IN  Unique(SelectSeq(dest, LAMBDA f : f # <<>>))

extractLinks(content, files) ==
    LET names == linkTargets(content)
        dest == [k \in 1..Len(names) |-> getFirstLinkpathDest(files, names[k])]
    IN  SelectSeq(dest, LAMBDA f : f # NoFile)

(***************************************************************************)
(* The vault: the files Obsidian holds, each with its content, and the     *)
(* frontmatter the metadata cache holds for each.  Neither changes during  *)
(* a run.                                                                  *)
(***************************************************************************)
FileA == <<"a", ".", "m", "d">>
FileB == <<"t", "/", "b", ".", "m", "d">>
FileC == <<"c", ".", "m", "d">>
FileD == <<"d", ".", "m", "d">>
FileP == <<"p", ".", "P", "N", "G">>

Files == {FileA, FileB, FileC, FileD, FileP}

KeyPrivate == <<"p", "r", "i", "v", "a", "t", "e">>

\* app.metadataCache.getFileCache(file)?.frontmatter
Frontmatter(file) ==
    IF file = FileB THEN [k \in {KeyPrivate} |-> FmTrue]
    ELSE IF file = FileD THEN [k \in {KeyPrivate} |-> FmStr("false")]
    ELSE NoCache

HeaderExample == <<"#", " ", "K", "e", "e", "p", "\n", "[", "[", "b", "]", "]", "\n", "#", "#", " ", "E", "x", "c", "l", "u", "d", "e", "d", "\n", "[", "[", "c", "]", "]", "\n", "#", "#", " ", "K", "e", "e", "p", "2", "\n", "[", "[", "d", "]", "]">>

ContentsA == { <<"[", "[", "b", "]", "]">>, <<"[", "[", "b", "]", "]", "\n", "[", "[", "c", "]", "]">>, <<"[", "[", "c", "|", "s", "e", "e", " ", "c", "]", "]", " ", "[", "[", "b", "]", "]">>, HeaderExample }
ContentsB == { <<"[", "[", "a", "]", "]">>, <<"[", "[", "c", "]", "]">>, <<"[", "[", "d", "]", "]">> }
ContentsC == { <<"[", "[", "d", "]", "]">>, <<"[", "[", "b", "]", "]">>, <<"[", "[", "p", ".", "P", "N", "G", "]", "]">> }
ContentD == <<"[", "[", "m", "i", "s", "s", "i", "n", "g", "]", "]", " ", "[", "[", "d", "]", "]">>
ContentP == <<"P", "N", "G", "[", "[", "c", "]", "]">>

VaultContents == ContentsA \cup ContentsB \cup ContentsC \cup {ContentD, ContentP}

\* the vault whose a.md, t/b.md and c.md hold a, b and c
VaultOf(a, b, c) ==
    [f \in Files |-> IF f = FileA THEN a ELSE IF f = FileB THEN b
                     ELSE IF f = FileC THEN c ELSE IF f = FileD THEN ContentD
                     ELSE ContentP]

Vaults == {VaultOf(a, b, c) : a \in ContentsA, b \in ContentsB, c \in ContentsC}

CycleVault == VaultOf(<<"[", "[", "b", "]", "]">>, <<"[", "[", "a", "]", "]">>, <<"[", "[", "p", ".", "P", "N", "G", "]", "]">>)
ChainVault == VaultOf(<<"[", "[", "b", "]", "]">>, <<"[", "[", "c", "]", "]">>, <<"[", "[", "d", "]", "]">>)
DiamondVault == VaultOf(<<"[", "[", "b", "]", "]", "\n", "[", "[", "c", "]", "]">>, <<"[", "[", "d", "]", "]">>, <<"[", "[", "d", "]", "]">>)
DiamondVault2 == VaultOf(<<"[", "[", "c", "|", "s", "e", "e", " ", "c", "]", "]", " ", "[", "[", "b", "]", "]">>, <<"[", "[", "d", "]", "]">>, <<"[", "[", "d", "]", "]">>)
RevisitVault == VaultOf(<<"[", "[", "b", "]", "]", "\n", "[", "[", "c", "]", "]">>, <<"[", "[", "d", "]", "]">>, <<"[", "[", "b", "]", "]">>)

(***************************************************************************)
(* The values a settings text area can be given, and the settings the      *)
(* plugin can load at start.                                               *)
(***************************************************************************)
KeyTexts == { <<>>, <<"p", "r", "i", "v", "a", "t", "e">> }
HeaderTexts == { <<>>, <<"E", "x", "c", "l", "u", "d", "e", "d">> }
FolderTexts == { <<>>, <<"T">> }
FileTexts == { <<>>, <<"b", ".", "*">> }

SettingsOf(keys, headers, folders, files) ==
    [excludedFrontmatterKeys |-> parseCommaSeparated(keys),
     excludedHeaders |-> parseCommaSeparated(headers),
     excludedFolders |-> parseCommaSeparated(folders),
     excludedFiles |-> parseCommaSeparated(files)]

AllSettings ==
    {SettingsOf(k, h, d, f) : k \in KeyTexts, h \in HeaderTexts,
                              d \in FolderTexts, f \in FileTexts}

FolderSettings == SettingsOf(<<>>, <<>>, <<"T">>, <<>>)

LoadedSettings ==
    {DEFAULT_SETTINGS, FolderSettings,
     SettingsOf(<<"p", "r", "i", "v", "a", "t", "e">>, <<>>, <<>>, <<>>),
     SettingsOf(<<>>, <<"E", "x", "c", "l", "u", "d", "e", "d">>, <<>>, <<"b", ".", "*">>)}

(***************************************************************************)
(* Bounds.                                                                 *)
(***************************************************************************)
\* settings-tab events (onChange, reset) in one behaviour
MaxTabEvents == 1
\* nested collectLinkedNotes calls (the traversal needs at most one per file)
MaxDepth == 6

Requests == {1, 2}

(***************************************************************************)
(* The values of the checks on the vault's files under the settings the    *)
(* tab can produce, each computed once and looked up by the actions.       *)
(***************************************************************************)
\* lines 145-146: the files linked from a content
linkedFilesOf(content, s) == extractLinks(filterContentByHeaders(content, s), Files)

ExcludedMemo ==
    [f \in Files |-> [s \in AllSettings |-> shouldExcludeFile(f, Frontmatter(f), s)]]

BinaryMemo == [f \in Files |-> isBinaryFile(f)]

LinkedFilesMemo ==
    [c \in VaultContents |-> [s \in AllSettings |-> linkedFilesOf(c, s)]]

ZipNameMemo == [f \in Files |-> FileBasename(f) \o <<".", "z", "i", "p">>]

(***************************************************************************)
(* State.                                                                  *)
(***************************************************************************)
VARIABLES
    vault,          \* app.vault: the content of each file
    settings,       \* plugin.settings
    tabEvents,      \* settings-tab events so far
    pc,             \* where each shareNoteAsZip request stands
    activeFile,     \* its activeFile
    notesSet,       \* its notesToZip, a Set in insertion order
    stack,          \* its suspended collectLinkedNotes calls
    callee,         \* the file of the collectLinkedNotes call being entered
    zip,            \* its JSZip: the entries added by zip.file
    zipIdx,         \* the position of the loop over notesToZip
    saved,          \* its saveAs calls
    notice,         \* its Notice
    startSettings,  \* history: plugin.settings when the request started
    cfgLog,         \* history: the settings values its checks and filters read
    readLog,        \* history: the files collectLinkedNotes read, in order
    excludedLog,    \* history: the files shouldExcludeFile returned true for
    call,           \* a call of one function on its own: its arguments
    ret             \* and its result

vars == <<vault, settings, tabEvents, pc, activeFile, notesSet, stack, callee, zip,
          zipIdx, saved, notice, startSettings, cfgLog, readLog, excludedLog,
          call, ret>>

runVars == <<pc, activeFile, notesSet, stack, callee, zip, zipIdx, saved, notice,
             startSettings, cfgLog, readLog, excludedLog>>

NoCall == [op |-> "none"]
NoRet == [done |-> FALSE]

\* a request that is not running JavaScript: not started, finished, or waiting for
\* the vault or for JSZip.  An await of an already settled promise (the await of
\* shouldExcludeFile, of isFrontmatterExcluded, of a collectLinkedNotes call that
\* returned at once) resumes in a microtask, before any event handler runs.
Suspended(r) == pc[r] \in {"unused", "idle", "read", "zipRead", "generate", "done", "failed"}

\* the event loop runs an event handler or an I/O completion only when no request
\* is in the middle of a synchronous stretch
EventLoopFree == \A r \in Requests : Suspended(r)

InitRun(live) ==
    /\ tabEvents = 0
    /\ pc = [r \in Requests |-> IF r \in live THEN "idle" ELSE "unused"]
    /\ activeFile = [r \in Requests |-> NoFile]
    /\ notesSet = [r \in Requests |-> <<>>]
    /\ stack = [r \in Requests |-> <<>>]
    /\ callee = [r \in Requests |-> NoFile]
    /\ zip = [r \in Requests |-> {}]
    /\ zipIdx = [r \in Requests |-> 0]
    /\ saved = [r \in Requests |-> <<>>]
    /\ notice = [r \in Requests |-> ""]
    /\ startSettings = [r \in Requests |-> DEFAULT_SETTINGS]
    /\ cfgLog = [r \in Requests |-> {}]
    /\ readLog = [r \in Requests |-> <<>>]
    /\ excludedLog = [r \in Requests |-> {}]

Init ==
    /\ vault \in Vaults
    /\ settings \in LoadedSettings
    /\ InitRun({1})
    /\ call = NoCall
    /\ ret = NoRet

(***************************************************************************)
(* shareNoteAsZip, lines 93-101.                                           *)
(***************************************************************************)
\* lines 94-98 without the return of line 97: the notice, then the archive
ShareNoActiveNoReturn(r) ==
    /\ pc[r] = "idle"
    /\ EventLoopFree
    /\ pc' = [pc EXCEPT ![r] = "zip"]
    /\ notice' = [notice EXCEPT ![r] = "No active note to share."]
    /\ UNCHANGED <<vault, settings, tabEvents, activeFile, notesSet, stack, callee, zip,
                   zipIdx, saved, startSettings, cfgLog, readLog, excludedLog, call, ret>>

\* lines 94-98: no active file
ShareNoActive(r) ==
    /\ pc[r] = "idle"
    /\ EventLoopFree
    /\ pc' = [pc EXCEPT ![r] = "done"]
    /\ notice' = [notice EXCEPT ![r] = "No active note to share."]
    /\ UNCHANGED <<vault, settings, tabEvents, activeFile, notesSet, stack, callee, zip,
                   zipIdx, saved, startSettings, cfgLog, readLog, excludedLog, call, ret>>

\* lines 94-101: a new Set, and the call collectLinkedNotes(activeFile, notesToZip)
ShareStart(r) ==
    /\ pc[r] = "idle"
    /\ EventLoopFree
    /\ \E file \in Files :
        /\ activeFile' = [activeFile EXCEPT ![r] = file]
        /\ callee' = [callee EXCEPT ![r] = file]
    /\ notesSet' = [notesSet EXCEPT ![r] = <<>>]
    /\ startSettings' = [startSettings EXCEPT ![r] = settings]
    /\ pc' = [pc EXCEPT ![r] = "collect"]
    /\ UNCHANGED <<vault, settings, tabEvents, stack, zip, zipIdx, saved, notice,
                   cfgLog, readLog, excludedLog, call, ret>>

(***************************************************************************)
(* collectLinkedNotes, lines 132-152.                                      *)
(***************************************************************************)
\* where control is after a collectLinkedNotes call returns: in the loop of the
\* calling collectLinkedNotes (line 148), or in shareNoteAsZip (line 103)
AfterReturn(stk) == IF stk = <<>> THEN "zip" ELSE "loop"

\* collectLinkedNotes without the test of line 133
HasNever(set, file) == FALSE

\* notesSet.has(file)
Has(set, file) == Contains(set, file)

\* notesSet.add(file)
Add(set, file) == IF Contains(set, file) THEN set ELSE Append(set, file)

\* line 133 on a set kept in one place for all requests
CollectVisitedShared(r) ==
    /\ pc[r] = "collect"
    /\ \E q \in Requests : Has(notesSet[q], callee[r])
    /\ pc' = [pc EXCEPT ![r] = AfterReturn(stack[r])]
    /\ UNCHANGED <<vault, settings, tabEvents, activeFile, notesSet, stack, callee, zip,
                   zipIdx, saved, notice, startSettings, cfgLog, readLog, excludedLog,
                   call, ret>>

\* line 133
CollectVisited(r) ==
    /\ pc[r] = "collect"
    /\ Has(notesSet[r], callee[r])
    /\ pc' = [pc EXCEPT ![r] = AfterReturn(stack[r])]
    /\ UNCHANGED <<vault, settings, tabEvents, activeFile, notesSet, stack, callee, zip,
                   zipIdx, saved, notice, startSettings, cfgLog, readLog, excludedLog,
                   call, ret>>

\* lines 136-138
CollectExcluded(r) ==
    /\ pc[r] = "collect"
    /\ ~Has(notesSet[r], callee[r])
    /\ ExcludedMemo[callee[r]][settings]
    /\ excludedLog' = [excludedLog EXCEPT ![r] = @ \cup {callee[r]}]
    /\ cfgLog' = [cfgLog EXCEPT ![r] = @ \cup {settings}]
    /\ pc' = [pc EXCEPT ![r] = AfterReturn(stack[r])]
    /\ UNCHANGED <<vault, settings, tabEvents, activeFile, notesSet, stack, callee, zip,
                   zipIdx, saved, notice, startSettings, readLog, call, ret>>

\* lines 140-143: a binary file is added and not read
CollectBinary(r) ==
    /\ pc[r] = "collect"
    /\ ~Has(notesSet[r], callee[r])
    /\ ~ExcludedMemo[callee[r]][settings]
    /\ BinaryMemo[callee[r]]
    /\ notesSet' = [notesSet EXCEPT ![r] = Add(@, callee[r])]
    /\ cfgLog' = [cfgLog EXCEPT ![r] = @ \cup {settings}]
    /\ pc' = [pc EXCEPT ![r] = AfterReturn(stack[r])]
    /\ UNCHANGED <<vault, settings, tabEvents, activeFile, stack, callee, zip, zipIdx,
                   saved, notice, startSettings, readLog, excludedLog, call, ret>>

\* lines 140-144 with the add of line 140 left until after the scan
CollectTextAddLater(r) ==
    /\ pc[r] = "collect"
    /\ ~Has(notesSet[r], callee[r])
    /\ ~ExcludedMemo[callee[r]][settings]
    /\ ~BinaryMemo[callee[r]]
    /\ Len(stack[r]) < MaxDepth
    /\ cfgLog' = [cfgLog EXCEPT ![r] = @ \cup {settings}]
    /\ stack' = [stack EXCEPT ![r] = Append(@, [file |-> callee[r], linkedFiles |-> <<>>])]
    /\ pc' = [pc EXCEPT ![r] = "read"]
    /\ UNCHANGED <<vault, settings, tabEvents, activeFile, notesSet, callee, zip, zipIdx,
                   saved, notice, startSettings, readLog, excludedLog, call, ret>>

\* lines 140-144: a text file is added and vault.read(file) is awaited
CollectText(r) ==
    /\ pc[r] = "collect"
    /\ ~Has(notesSet[r], callee[r])
    /\ ~ExcludedMemo[callee[r]][settings]
    /\ ~BinaryMemo[callee[r]]
    /\ Len(stack[r]) < MaxDepth
    /\ notesSet' = [notesSet EXCEPT ![r] = Add(@, callee[r])]
    /\ cfgLog' = [cfgLog EXCEPT ![r] = @ \cup {settings}]
    /\ stack' = [stack EXCEPT ![r] = Append(@, [file |-> callee[r], linkedFiles |-> <<>>])]
    /\ pc' = [pc EXCEPT ![r] = "read"]
    /\ UNCHANGED <<vault, settings, tabEvents, activeFile, callee, zip, zipIdx, saved,
                   notice, startSettings, readLog, excludedLog, call, ret>>

\* lines 144-146: the read resolves; the content is filtered and its links extracted
ReadDone(r) ==
    /\ pc[r] = "read"
    /\ EventLoopFree
    /\ LET top == Len(stack[r])
           file == stack[r][top].file
           content == vault[file]
           linkedFiles == LinkedFilesMemo[content][settings]
       IN  /\ stack' = [stack EXCEPT ![r][top].linkedFiles = linkedFiles]
           /\ readLog' = [readLog EXCEPT ![r] = Append(@, file)]
    /\ cfgLog' = [cfgLog EXCEPT ![r] = @ \cup {settings}]
    /\ pc' = [pc EXCEPT ![r] = "loop"]
    /\ UNCHANGED <<vault, settings, tabEvents, activeFile, notesSet, callee, zip, zipIdx,
                   saved, notice, startSettings, excludedLog, call, ret>>

\* line 144: the read rejects; the rejection passes through every awaiting
\* collectLinkedNotes call and through shareNoteAsZip, which catch nothing
ReadFail(r) ==
    /\ pc[r] = "read"
    /\ EventLoopFree
    /\ stack' = [stack EXCEPT ![r] = <<>>]
    /\ pc' = [pc EXCEPT ![r] = "failed"]
    /\ UNCHANGED <<vault, settings, tabEvents, activeFile, notesSet, callee, zip, zipIdx,
                   saved, notice, startSettings, cfgLog, readLog, excludedLog, call, ret>>

\* the loop of lines 148-150 leaving after its first linked file
LoopCallFirstOnly(r) ==
    /\ pc[r] = "loop"
    /\ LET top == Len(stack[r])
       IN  /\ stack[r][top].linkedFiles # <<>>
           /\ callee' = [callee EXCEPT ![r] = Head(stack[r][top].linkedFiles)]
           /\ stack' = [stack EXCEPT ![r][top].linkedFiles = <<>>]
    /\ pc' = [pc EXCEPT ![r] = "collect"]
    /\ UNCHANGED <<vault, settings, tabEvents, activeFile, notesSet, zip, zipIdx, saved,
                   notice, startSettings, cfgLog, readLog, excludedLog, call, ret>>

\* lines 148-150: the next linked file is visited
LoopCall(r) ==
    /\ pc[r] = "loop"
    /\ LET top == Len(stack[r])
       IN  /\ stack[r][top].linkedFiles # <<>>
           /\ callee' = [callee EXCEPT ![r] = Head(stack[r][top].linkedFiles)]
           /\ stack' = [stack EXCEPT ![r][top].linkedFiles = Tail(@)]
    /\ pc' = [pc EXCEPT ![r] = "collect"]
    /\ UNCHANGED <<vault, settings, tabEvents, activeFile, notesSet, zip, zipIdx, saved,
                   notice, startSettings, cfgLog, readLog, excludedLog, call, ret>>

\* lines 148-152: the loop is over and the call returns
LoopReturn(r) ==
    /\ pc[r] = "loop"
    /\ LET top == Len(stack[r])
       IN  /\ stack[r][top].linkedFiles = <<>>
           /\ stack' = [stack EXCEPT ![r] = SubSeq(@, 1, top - 1)]
           /\ pc' = [pc EXCEPT ![r] = AfterReturn(SubSeq(stack[r], 1, top - 1))]
    /\ UNCHANGED <<vault, settings, tabEvents, activeFile, notesSet, callee, zip, zipIdx,
                   saved, notice, startSettings, cfgLog, readLog, excludedLog, call, ret>>

(***************************************************************************)
(* shareNoteAsZip, lines 103-117.                                          *)
(***************************************************************************)
\* lines 104-109: the next note's content is awaited (readBinary or read)
ZipNext(r) ==
    /\ pc[r] = "zip"
    /\ zipIdx[r] < Len(notesSet[r])
    /\ zipIdx' = [zipIdx EXCEPT ![r] = @ + 1]
    /\ pc' = [pc EXCEPT ![r] = "zipRead"]
    /\ UNCHANGED <<vault, settings, tabEvents, activeFile, notesSet, stack, callee, zip,
                   saved, notice, startSettings, cfgLog, readLog, excludedLog, call, ret>>

\* lines 106-110: the read resolves and zip.file(note.path, content) adds the entry
ZipReadDone(r) ==
    /\ pc[r] = "zipRead"
    /\ EventLoopFree
    /\ LET note == notesSet[r][zipIdx[r]]
       IN  zip' = [zip EXCEPT ![r] = @ \cup {[path |-> note, binary |-> BinaryMemo[note]]}]
    /\ pc' = [pc EXCEPT ![r] = "zip"]
    /\ UNCHANGED <<vault, settings, tabEvents, activeFile, notesSet, stack, callee, zipIdx,
                   saved, notice, startSettings, cfgLog, readLog, excludedLog, call, ret>>

\* lines 106-109 with the rejection caught and the note left out of the archive
ZipReadSkip(r) ==
    /\ pc[r] = "zipRead"
    /\ EventLoopFree
    /\ pc' = [pc EXCEPT ![r] = "zip"]
    /\ UNCHANGED <<vault, settings, tabEvents, activeFile, notesSet, stack, callee, zip,
                   zipIdx, saved, notice, startSettings, cfgLog, readLog, excludedLog,
                   call, ret>>

\* lines 106, 109: the read rejects and shareNoteAsZip rejects
ZipReadFail(r) ==
    /\ pc[r] = "zipRead"
    /\ EventLoopFree
    /\ pc' = [pc EXCEPT ![r] = "failed"]
    /\ UNCHANGED <<vault, settings, tabEvents, activeFile, notesSet, stack, callee, zip,
                   zipIdx, saved, notice, startSettings, cfgLog, readLog, excludedLog,
                   call, ret>>

\* line 114: the loop is over and zip.generateAsync is awaited
ZipGenerate(r) ==
    /\ pc[r] = "zip"
    /\ zipIdx[r] >= Len(notesSet[r])
    /\ pc' = [pc EXCEPT ![r] = "generate"]
    /\ UNCHANGED <<vault, settings, tabEvents, activeFile, notesSet, stack, callee, zip,
                   zipIdx, saved, notice, startSettings, cfgLog, readLog, excludedLog,
                   call, ret>>

\* lines 114-117 giving up on an archive without entries
GenerateDoneSkipEmpty(r) ==
    /\ pc[r] = "generate"
    /\ EventLoopFree
    /\ saved' = [saved EXCEPT ![r] =
                    IF zip[r] = {} THEN @
                    ELSE Append(@, [name |-> ZipNameMemo[activeFile[r]],
                                    entries |-> zip[r]])]
    /\ notice' = [notice EXCEPT ![r] = IF zip[r] = {} THEN "Nothing to share."
                                       ELSE "ZIP created"]
    /\ pc' = [pc EXCEPT ![r] = "done"]
    /\ UNCHANGED <<vault, settings, tabEvents, activeFile, notesSet, stack, callee, zip,
                   zipIdx, startSettings, cfgLog, readLog, excludedLog, call, ret>>

\* lines 114-117: the archive is generated, saved, and the notice shown
GenerateDone(r) ==
    /\ pc[r] = "generate"
    /\ EventLoopFree
    /\ saved' = [saved EXCEPT ![r] =
                    Append(@, [name |-> ZipNameMemo[activeFile[r]],
                               entries |-> zip[r]])]
    /\ notice' = [notice EXCEPT ![r] = "ZIP created"]
    /\ pc' = [pc EXCEPT ![r] = "done"]
    /\ UNCHANGED <<vault, settings, tabEvents, activeFile, notesSet, stack, callee, zip,
                   zipIdx, startSettings, cfgLog, readLog, excludedLog, call, ret>>

\* line 114: generateAsync rejects and shareNoteAsZip rejects
GenerateFail(r) ==
    /\ pc[r] = "generate"
    /\ EventLoopFree
    /\ pc' = [pc EXCEPT ![r] = "failed"]
    /\ UNCHANGED <<vault, settings, tabEvents, activeFile, notesSet, stack, callee, zip,
                   zipIdx, saved, notice, startSettings, cfgLog, readLog, excludedLog,
                   call, ret>>

(***************************************************************************)
(* The settings tab, lines 324-327, 339-342, 357-360, 372-375, 448-450.    *)
(***************************************************************************)
\* a settings-tab event handler can run, and what it leaves alone
TabEvent ==
    /\ EventLoopFree
    /\ tabEvents < MaxTabEvents
    /\ tabEvents' = tabEvents + 1
    /\ UNCHANGED <<vault, call, ret>>
    /\ UNCHANGED runVars

\* lines 324-327
OnChangeFrontmatterKeys ==
    /\ \E value \in KeyTexts :
        settings' = [settings EXCEPT !.excludedFrontmatterKeys = parseCommaSeparated(value)]
    /\ TabEvent

\* lines 339-342
OnChangeHeaders ==
    /\ \E value \in HeaderTexts :
        settings' = [settings EXCEPT !.excludedHeaders = parseCommaSeparated(value)]
    /\ TabEvent

\* lines 357-360
OnChangeFolders ==
    /\ \E value \in FolderTexts :
        settings' = [settings EXCEPT !.excludedFolders = parseCommaSeparated(value)]
    /\ TabEvent

\* lines 372-375
OnChangeFiles ==
    /\ \E value \in FileTexts :
        settings' = [settings EXCEPT !.excludedFiles = parseCommaSeparated(value)]
    /\ TabEvent

\* lines 448-450
ResetSettings ==
    /\ settings' = DEFAULT_SETTINGS
    /\ TabEvent

(***************************************************************************)
(* Specifications.                                                         *)
(***************************************************************************)
RunStep(r) ==
    \/ ShareNoActive(r)
    \/ ShareStart(r)
    \/ CollectVisited(r)
    \/ CollectExcluded(r)
    \/ CollectBinary(r)
    \/ CollectText(r)
    \/ ReadDone(r)
    \/ LoopCall(r)
    \/ LoopReturn(r)
    \/ ZipNext(r)
    \/ ZipReadDone(r)
    \/ ZipGenerate(r)
    \/ GenerateDone(r)

RunFailure(r) ==
    \/ ReadFail(r)
    \/ ZipReadFail(r)
    \/ GenerateFail(r)

SettingsStep ==
    \/ OnChangeFrontmatterKeys
    \/ OnChangeHeaders
    \/ OnChangeFolders
    \/ OnChangeFiles
    \/ ResetSettings

Next ==
    \/ \E r \in Requests : RunStep(r) \/ RunFailure(r)
    \/ SettingsStep

\* one request, with the settings tab open and I/O that can fail
Spec == Init /\ [][Next]_vars

\* one request with a fixed configuration: the settings tab stays closed
InitFixed ==
    /\ vault \in Vaults
    /\ settings \in AllSettings
    /\ InitRun({1})
    /\ call = NoCall
    /\ ret = NoRet

NextFixed == \E r \in Requests : RunStep(r) \/ RunFailure(r)

SpecFixed == InitFixed /\ [][NextFixed]_vars

\* Spec with the event loop's fairness: a started request's next step is run, and
\* every read and every generateAsync settles (it resolves or it rejects)
FairSpec == Spec /\ \A r \in Requests : WF_vars(RunStep(r) \/ RunFailure(r))

(***************************************************************************)
(* Calls of one function on its own, over bounded inputs.                  *)
(***************************************************************************)
\* the lines of the filtered contents
MaxLines == 4
\* the characters of a file name, of a file pattern, of a path, of a folder pattern
MaxNameLen == 3
MaxFilePatternLen == 3
MaxPathLen == 4
MaxFolderPatternLen == 2

Strings(chars, maxLen) == UNION {[1..n -> chars] : n \in 0..maxLen}

InitCall(op, args, s) ==
    /\ vault = CycleVault
    /\ settings \in s
    /\ InitRun({})
    /\ call \in {[op |-> op, arg |-> a] : a \in args}
    /\ ret = NoRet

\* the call has not returned yet, and what its return leaves alone
Returns(op) ==
    /\ call.op = op
    /\ ~ret.done
    /\ UNCHANGED <<vault, settings, tabEvents, call>>
    /\ UNCHANGED runVars

\* filterContentByHeaders on every content of up to MaxLines lines of LinePool
LinePool == { <<"#", " ", "x">>, <<"#", "#", "#", " ", "X">>, <<"#", "#", " ", "k">>, <<"#", " ", "k">>, <<"#", "#", "#", " ", "k">>, <<"[", "[", "y", "]", "]">>, <<"#", "x">> }

SpecExampleText == <<"#", " ", "K", "e", "e", "p", "\n", "[", "[", "X", "]", "]", "\n", "#", "#", " ", "E", "x", "c", "l", "u", "d", "e", "d", "\n", "[", "[", "Y", "]", "]", "\n", "#", "#", " ", "K", "e", "e", "p", "2", "\n", "[", "[", "Z", "]", "]">>

FilterContents ==
    {join(ls, "\n") : ls \in Strings(LinePool, MaxLines) \ {<<>>}} \cup {SpecExampleText}

HeaderSettings ==
    {[DEFAULT_SETTINGS EXCEPT !.excludedHeaders = h] :
        h \in {<<>>, << <<"x">> >>, << <<"E", "x", "c", "l", "u", "d", "e", "d">> >>, << <<"q">>, <<"K">> >>}}

InitFilter == InitCall("filterContentByHeaders", FilterContents, HeaderSettings)

CallFilterContentByHeaders ==
    /\ ret' = [done |-> TRUE,
               value |-> [text |-> filterContentByHeaders(call.arg, settings),
                          kept |-> filteredLineNumbers(call.arg, settings)]]
    /\ Returns("filterContentByHeaders")

SpecFilter == InitFilter /\ [][CallFilterContentByHeaders]_vars

\* isFileNameExcluded on every name and pattern over small alphabets
NameChars == {"a", "b", "."}
FilePatternChars == {"a", ".", "*", " "}

FileNames ==
    (Strings(NameChars, MaxNameLen) \ {<<>>})
        \cup { <<"n", "o", "t", "e", "s", ".", "t", "m", "p">>, <<"n", "o", "t", "e", "s", ".", "t", "m", "p", ".", "b", "a", "k">>, <<"A", "b">>, <<"x", "t", "m", "p">> }

FilePatterns ==
    Strings(FilePatternChars, MaxFilePatternLen) \cup { <<"*", ".", "t", "m", "p">>, <<"A", "*">>, <<"n", "o", "t", "e", "s", ".", "t", "m", "p">> }

FileSettings ==
    {[DEFAULT_SETTINGS EXCEPT !.excludedFiles = <<p>>] : p \in FilePatterns}
        \cup {DEFAULT_SETTINGS,
              [DEFAULT_SETTINGS EXCEPT !.excludedFiles = << <<"b">>, <<"a", "*">> >>]}

InitFileName == InitCall("isFileNameExcluded", FileNames, FileSettings)

CallIsFileNameExcluded ==
    /\ ret' = [done |-> TRUE, value |-> isFileNameExcluded(call.arg, settings)]
    /\ Returns("isFileNameExcluded")

SpecFileName == InitFileName /\ [][CallIsFileNameExcluded]_vars

\* isFileInExcludedFolder on every vault path and pattern over small alphabets
PathChars == {"t", "x", "/"}
FolderPatternChars == {"t", "T", "/", " "}

\* a vault path has no empty segment
ValidPath(path) == \A i \in 1..Len(split(path, "/")) : split(path, "/")[i] # <<>>

Paths ==
    {p \in Strings(PathChars, MaxPathLen) : ValidPath(p)}
        \cup { <<"T", "e", "m", "p", "l", "a", "t", "e", "s", "/", "a", ".", "m", "d">>, <<"N", "o", "t", "e", "s", "/", "T", "e", "m", "p", "l", "a", "t", "e", "s", "/", "b", ".", "m", "d">>, <<"M", "y", "T", "e", "m", "p", "l", "a", "t", "e", "s", "/", "c", ".", "m", "d">>,
               <<"T", "e", "m", "p", "l", "a", "t", "e", "s">>, <<"x", "/", "t", "/", "x", "/", "t", "/", "x">> }

FolderPatterns ==
    Strings(FolderPatternChars, MaxFolderPatternLen)
        \cup { <<"T", "e", "m", "p", "l", "a", "t", "e", "s">>, <<"t", "e", "m", "p", "l", "a", "t", "e", "s", " ">>, <<"t", "/", "x">>, <<"x", "/", "t", "/", "x">> }

FolderOnlySettings ==
    {[DEFAULT_SETTINGS EXCEPT !.excludedFolders = <<p>>] : p \in FolderPatterns}
        \cup {DEFAULT_SETTINGS,
              [DEFAULT_SETTINGS EXCEPT !.excludedFolders = << <<"q">>, <<"x">> >>]}

InitFolder == InitCall("isFileInExcludedFolder", Paths, FolderOnlySettings)

CallIsFileInExcludedFolder ==
    /\ ret' = [done |-> TRUE, value |-> isFileInExcludedFolder(call.arg, settings)]
    /\ Returns("isFileInExcludedFolder")

SpecFolder == InitFolder /\ [][CallIsFileInExcludedFolder]_vars

(***************************************************************************)
(* Reference definitions for the properties below.                         *)
(***************************************************************************)
\* the traversal of a request has returned to shareNoteAsZip
TraversalDone(r) == pc[r] \in {"zip", "zipRead", "generate"} \/ saved[r] # <<>>

\* the number of times file was read by the traversal of r
Reads(r, file) == Cardinality({i \in 1..Len(readLog[r]) : readLog[r][i] = file})

\* the files linked from the header-filtered text of a text file, not excluded
Children(v, file, s) ==
    IF FileExtension(file) = <<"P", "N", "G">> THEN {}
    ELSE {g \in Range(extractLinks(filterContentByHeaders(v[file], s), DOMAIN v)) :
            ~shouldExcludeFile(g, Frontmatter(g), s)}

RECURSIVE Closure(_, _, _)
Closure(v, S, s) ==
    LET T == S \cup UNION {Children(v, file, s) : file \in S}
    IN  IF T = S THEN S ELSE Closure(v, T, s)

\* the least set that holds the root unless excluded and is closed under Children
LeastSet(v, root, s) ==
    IF shouldExcludeFile(root, Frontmatter(root), s) THEN {}
    ELSE Closure(v, {root}, s)

(***************************************************************************)
(* Properties.                                                             *)
(***************************************************************************)

\* on the cycle a.md -> t/b.md -> a.md, with no exclusion rule read during the run,
\* the final set is exactly {a.md, t/b.md}
C1_CycleResult ==
    \A r \in Requests :
        (/\ TraversalDone(r)
         /\ activeFile[r] = FileA
         /\ vault[FileA] = <<"[", "[", "b", "]", "]">>
         /\ vault[FileB] = <<"[", "[", "a", "]", "]">>
         /\ cfgLog[r] \subseteq {DEFAULT_SETTINGS})
        => Range(notesSet[r]) = {FileA, FileB}

\* C1: a traversal that has started ends (it returns to shareNoteAsZip, or a read
\* rejects), on every vault, cyclic ones included; on the cycle a.md -> t/b.md -> a.md
\* with no exclusion rule read during the run the final set is exactly {a.md, t/b.md}.
C1_Terminates ==
    /\ \A r \in Requests :
        (pc[r] = "collect") ~> (TraversalDone(r) \/ pc[r] = "failed")
    /\ []C1_CycleResult

C1_Witness ==
    /\ TraversalDone(1)
    /\ vault = CycleVault
    /\ activeFile[1] = FileA
    /\ cfgLog[1] = {DEFAULT_SETTINGS}
    /\ notesSet[1] = <<FileA, FileB>>
    /\ readLog[1] = <<FileA, FileB>>

\* C2: a file for which shouldExcludeFile returned true during a run is never in the
\* run's set and is never read by the traversal; on a.md -> t/b.md -> c.md with t/b.md
\* excluded and read from a.md, the result is {a.md}.
C2_ExcludedNeverCollected ==
    \A r \in Requests :
        /\ \A file \in excludedLog[r] :
            /\ ~Has(notesSet[r], file)
            /\ Reads(r, file) = 0
        /\ (/\ TraversalDone(r)
            /\ activeFile[r] = FileA
            /\ vault[FileA] = <<"[", "[", "b", "]", "]">>
            /\ vault[FileB] = <<"[", "[", "c", "]", "]">>
            /\ FileB \in excludedLog[r])
           => Range(notesSet[r]) = {FileA}

\* C3: the result of a run is the one the settings in effect at its start give: a
\* settings-tab event during the run does not change what the run collects.
C3_SnapshotOutcome ==
    \A r \in Requests :
        TraversalDone(r)
        => Range(notesSet[r]) = LeastSet(vault, activeFile[r], startSettings[r])

\* C4: under a fixed configuration the final set is the least set that holds the
\* root unless it is excluded and, with each text file in it, every file resolved
\* from a link of its header-filtered text that is not excluded; on the diamond
\* (either order of a.md's links) it is all four files and d.md is read once.
C4_LeastSet ==
    \A r \in Requests :
        TraversalDone(r)
        => /\ Range(notesSet[r]) = LeastSet(vault, activeFile[r], settings)
           /\ (/\ vault \in {DiamondVault, DiamondVault2}
               /\ activeFile[r] = FileA
               /\ settings = DEFAULT_SETTINGS)
              => /\ Range(notesSet[r]) = {FileA, FileB, FileC, FileD}
                 /\ Reads(r, FileD) = 1

C4_Witness ==
    /\ TraversalDone(1)
    /\ vault = DiamondVault2
    /\ settings = DEFAULT_SETTINGS
    /\ notesSet[1] = <<FileA, FileC, FileD, FileB>>
    /\ readLog[1] = <<FileA, FileC, FileD, FileB>>

(***************************************************************************)
(* Lines, headers and excluded scopes of a filtered content.               *)
(***************************************************************************)
LinesOf(content) == split(content, "\n")

\* line i is a header line whose text holds an excluded substring
ExcludedHeader(lines, i, s) ==
    headerMatch(lines[i]).matched /\ headerShouldExclude(lines[i], s)

\* the first header line after i of level <= L, or one past the last line
ScopeEnd(lines, i, L) ==
    LET ends == {j \in (i + 1)..Len(lines) :
                    headerMatch(lines[j]).matched /\ headerMatch(lines[j]).level <= L}
    IN  IF ends = {} THEN Len(lines) + 1 ELSE CHOOSE j \in ends : \A k \in ends : j <= k

\* line k lies between an excluded header of level L and the next header of level <= L
InExcludedScope(lines, k, s) ==
    \E i \in 1..(k - 1) :
        /\ ExcludedHeader(lines, i, s)
        /\ k < ScopeEnd(lines, i, headerMatch(lines[i]).level)

\* C5: after an excluded heading of level L every line is dropped up to the first
\* heading of level <= L, whatever deeper headings lie in between.
C5_SkipToSameLevel ==
    (call.op = "filterContentByHeaders" /\ ret.done /\ settings.excludedHeaders # <<>>)
    => \A k \in 1..Len(LinesOf(call.arg)) :
          InExcludedScope(LinesOf(call.arg), k, settings)
          => ~Contains(ret.value.kept, k)

\* C6: the output is the input's lines at increasing positions, and it holds every
\* line that is neither an excluded heading nor inside an excluded scope; from the
\* spec's example text the links extracted afterwards are X and Z.
C6_KeepsOutsideScopes ==
    (call.op = "filterContentByHeaders" /\ ret.done)
    => LET lines == LinesOf(call.arg)
           kept == ret.value.kept
       IN  /\ \A a, b \in 1..Len(kept) : a < b => kept[a] < kept[b]
           /\ Range(kept) \subseteq 1..Len(lines)
           /\ ret.value.text = join(FilterSeq(lines, kept), "\n")
           /\ \A k \in 1..Len(lines) :
                (~ExcludedHeader(lines, k, settings) /\ ~InExcludedScope(lines, k, settings))
                => Contains(kept, k)
           /\ (call.arg = SpecExampleText
               /\ settings.excludedHeaders = << <<"E", "x", "c", "l", "u", "d", "e", "d">> >>)
              => linkTargets(ret.value.text) = << <<"X">>, <<"Z">> >>

\* a skip ended by a sibling heading that is kept, with kept lines after it
C6_Witness ==
    /\ call.op = "filterContentByHeaders"
    /\ ret.done
    /\ call.arg = <<"#", "#", "#", " ", "X", "\n", "[", "[", "y", "]", "]", "\n", "#", "#", "#", " ", "k", "\n", "[", "[", "y", "]", "]">>
    /\ settings.excludedHeaders = << <<"x">> >>
    /\ ret.value.kept = <<3, 4>>

(***************************************************************************)
(* A file pattern read as the spec reads it: '*' is any run of characters  *)
(* and every other character is itself.                                    *)
(***************************************************************************)
RECURSIVE WildcardMatch(_, _, _, _)
WildcardMatch(pattern, i, name, j) ==
    IF i > Len(pattern) THEN j > Len(name)
    ELSE IF pattern[i] = "*"
    THEN \/ WildcardMatch(pattern, i + 1, name, j)
         \/ j <= Len(name) /\ WildcardMatch(pattern, i, name, j + 1)
    ELSE /\ j <= Len(name)
         /\ pattern[i] = name[j]
         /\ WildcardMatch(pattern, i + 1, name, j + 1)

\* C7: isFileNameExcluded matches exactly when the lowercased name is the lowercased
\* trimmed pattern with each '*' replaced by some run of characters, every other
\* pattern character standing for itself.
C7_LiteralWildcard ==
    (call.op = "isFileNameExcluded" /\ ret.done)
    => ret.value =
         \E k \in 1..Len(settings.excludedFiles) :
            LET pattern == trim(toLowerCase(settings.excludedFiles[k]))
            IN  /\ pattern # <<>>
                /\ WildcardMatch(pattern, 1, toLowerCase(FileName(call.arg)), 1)

(***************************************************************************)
(* A folder pattern read as a run of path segments.                        *)
(***************************************************************************)
\* the segments of the path but the last, the file's name
FolderSegments(path) ==
    LET segs == split(path, "/") IN SubSeq(segs, 1, Len(segs) - 1)

\* the pattern's segments are consecutive folder segments of the path
OccursAsFolders(pattern, path) ==
    LET want == split(pattern, "/")
        have == FolderSegments(path)
    IN  \E i \in 0..(Len(have) - Len(want)) : SubSeq(have, i + 1, i + Len(want)) = want

\* C10 as stated: a file is excluded exactly when some non-empty pattern occurs as
\* a complete run of folder segments of its path.
C10_FolderSegmentsOnly ==
    (call.op = "isFileInExcludedFolder" /\ ret.done)
    => ret.value =
         \E k \in 1..Len(settings.excludedFolders) :
            LET pattern == trim(toLowerCase(settings.excludedFolders[k]))
            IN  /\ pattern # <<>>
                /\ OccursAsFolders(pattern, toLowerCase(call.arg))

\* C10 as amended: a file is excluded exactly when some non-empty pattern occurs as
\* a complete run of folder segments of its path, or is the whole path.
C10_FolderSegmentsOrWholePath ==
    (call.op = "isFileInExcludedFolder" /\ ret.done)
    => ret.value =
         \E k \in 1..Len(settings.excludedFolders) :
            LET pattern == trim(toLowerCase(settings.excludedFolders[k]))
            IN  /\ pattern # <<>>
                /\ \/ OccursAsFolders(pattern, toLowerCase(call.arg))
                   \/ toLowerCase(call.arg) = pattern

\* a nested folder is matched
C10_Witness ==
    /\ call.op = "isFileInExcludedFolder"
    /\ ret.done
    /\ call.arg = <<"N", "o", "t", "e", "s", "/", "T", "e", "m", "p", "l", "a", "t", "e", "s", "/", "b", ".", "m", "d">>
    /\ settings.excludedFolders = << <<"T", "e", "m", "p", "l", "a", "t", "e", "s">> >>
    /\ ret.value = TRUE

\* C8: the vault's binary file, p.PNG, is never read by a traversal, and a traversal
\* rooted at it, not excluded, collects exactly that file.
C8_BinaryNotScanned ==
    \A r \in Requests :
        /\ Reads(r, FileP) = 0
        /\ \A i \in 1..Len(stack[r]) : stack[r][i].file # FileP
        /\ (TraversalDone(r) /\ activeFile[r] = FileP /\ FileP \notin excludedLog[r])
           => notesSet[r] = <<FileP>>
        /\ (TraversalDone(r) /\ Has(notesSet[r], FileC)
            /\ vault[FileC] = <<"[", "[", "p", ".", "P", "N", "G", "]", "]">>)
           => Has(notesSet[r], FileP)

C8_Witness ==
    /\ TraversalDone(1)
    /\ activeFile[1] = FileP
    /\ notesSet[1] = <<FileP>>
    /\ readLog[1] = <<>>

\* C9: saveAs is called at most once, at the end, with one entry for each file of
\* the finished set, every text file of which the traversal read; a request that
\* failed has saved nothing and takes no further step.
C9_AllOrNothing ==
    \A r \in Requests :
        /\ Len(saved[r]) <= 1
        /\ saved[r] # <<>> =>
            /\ pc[r] = "done"
            /\ {e.path : e \in saved[r][1].entries} = Range(notesSet[r])
            /\ Cardinality(saved[r][1].entries) = Len(notesSet[r])
            /\ \A file \in Range(notesSet[r]) : file = FileP \/ Reads(r, file) = 1
        /\ pc[r] = "failed" =>
            /\ saved[r] = <<>>
            /\ ~ENABLED (RunStep(r) \/ RunFailure(r))

C9_Witness ==
    /\ pc[1] = "done"
    /\ Len(saved[1]) = 1
    /\ Cardinality(saved[1][1].entries) = 5

(***************************************************************************)
(* isFrontmatterExcluded on its own: every frontmatter over two keys and   *)
(* the values of FmValues, or none, under every list of excluded keys.     *)
(***************************************************************************)
KeyDraft == <<"d", "r", "a", "f", "t">>

FmValues ==
    {FmTrue, FmFalse, FmStr("true"), FmStr("false"), FmStr("1"), FmStr("True"),
     FmStr("yes"), FmStr(""), FmNum("1"), FmNum("0")}

Frontmatters ==
    {NoCache} \cup UNION {[keys -> FmValues] : keys \in SUBSET {KeyPrivate, KeyDraft}}

KeySettings ==
    {[DEFAULT_SETTINGS EXCEPT !.excludedFrontmatterKeys = k] :
        k \in {<<>>, <<KeyPrivate>>, <<KeyDraft>>, <<KeyDraft, KeyPrivate>>,
               << <<"P", "r", "i", "v", "a", "t", "e">> >>}}

InitFrontmatter == InitCall("isFrontmatterExcluded", Frontmatters, KeySettings)

CallIsFrontmatterExcluded ==
    /\ ret' = [done |-> TRUE, value |-> isFrontmatterExcluded(call.arg, settings)]
    /\ Returns("isFrontmatterExcluded")

SpecFrontmatter == InitFrontmatter /\ [][CallIsFrontmatterExcluded]_vars

\* the four values the spec calls truthy
TruthyValues == {FmTrue, FmStr("true"), FmNum("1"), FmStr("1")}

\* the frontmatter that holds the one key private, with the value
PrivateIs(value) == [k \in {KeyPrivate} |-> value]

\* C11: isFrontmatterExcluded returns true exactly when the frontmatter exists and
\* holds some configured key with one of the values true, "true", 1, "1"; with the
\* key private configured, "true", 1 and true exclude, and "false", 0, "True", "yes",
\* an absent key and an absent frontmatter do not.
C11_TruthyValuesOnly ==
    (call.op = "isFrontmatterExcluded" /\ ret.done)
    => /\ ret.value =
            (/\ call.arg # NoCache
             /\ \E k \in 1..Len(settings.excludedFrontmatterKeys) :
                    /\ settings.excludedFrontmatterKeys[k] \in DOMAIN call.arg
                    /\ call.arg[settings.excludedFrontmatterKeys[k]] \in TruthyValues)
       /\ settings.excludedFrontmatterKeys = <<KeyPrivate>>
          => /\ call.arg \in {PrivateIs(FmStr("true")), PrivateIs(FmNum("1")),
                              PrivateIs(FmTrue)} => ret.value
             /\ call.arg \in {PrivateIs(FmStr("false")), PrivateIs(FmNum("0")),
                              PrivateIs(FmStr("True")), PrivateIs(FmStr("yes")),
                              PrivateIs(FmFalse),
                              [k \in {KeyDraft} |-> FmTrue]} => ~ret.value
             /\ call.arg = NoCache => ~ret.value

\* the number 1 under the second of two configured keys excludes
C11_Witness ==
    /\ call.op = "isFrontmatterExcluded"
    /\ ret.done
    /\ settings.excludedFrontmatterKeys = <<KeyDraft, KeyPrivate>>
    /\ call.arg # NoCache
    /\ DOMAIN call.arg = {KeyPrivate, KeyDraft}
    /\ call.arg[KeyPrivate] = FmNum("1")
    /\ call.arg[KeyDraft] = FmStr("false")
    /\ ret.value = TRUE

(***************************************************************************)
(* shouldExcludeFile with and without a pattern that is empty once         *)
(* trimmed, put first or last in excludedFolders or in excludedFiles.      *)
(***************************************************************************)
BlankPatterns == { <<>>, <<" ">>, <<"\t">>, <<" ", "\t", " ">> }

BlankFiles == Files \cup { <<"t", "/", "x", ".", "m", "d">>, <<"T", "e", "m", "p", "l", "a", "t", "e", "s", "/", "a", ".", "m", "d">>, <<"b", ".", "t", "m", "p">> }

\* the settings s with the pattern added to the list field, first or last
WithPattern(s, field, pattern, first) ==
    IF field = "excludedFolders"
    THEN [s EXCEPT !.excludedFolders = IF first THEN <<pattern>> \o @
                                       ELSE Append(@, pattern)]
    ELSE [s EXCEPT !.excludedFiles = IF first THEN <<pattern>> \o @
                                     ELSE Append(@, pattern)]

BlankCalls ==
    {[file |-> f, pattern |-> p, field |-> d, first |-> b] :
        f \in BlankFiles, p \in BlankPatterns,
        d \in {"excludedFolders", "excludedFiles"}, b \in BOOLEAN}

InitBlank == InitCall("shouldExcludeFile", BlankCalls, AllSettings)

CallShouldExcludeFile ==
    /\ ret' = [done |-> TRUE,
               value |-> [without |-> shouldExcludeFile(call.arg.file,
                                          Frontmatter(call.arg.file), settings),
                          with |-> shouldExcludeFile(call.arg.file,
                                       Frontmatter(call.arg.file),
                                       WithPattern(settings, call.arg.field,
                                                   call.arg.pattern, call.arg.first))]]
    /\ Returns("shouldExcludeFile")

SpecBlank == InitBlank /\ [][CallShouldExcludeFile]_vars

\* C12: a folder or file pattern that is empty once trimmed excludes nothing: with
\* it added to excludedFolders or excludedFiles, shouldExcludeFile returns what it
\* returns without it, and false when it is the only rule.
C12_BlankPatternIgnored ==
    (call.op = "shouldExcludeFile" /\ ret.done)
    => /\ ret.value.with = ret.value.without
       /\ settings = DEFAULT_SETTINGS => ret.value.with = FALSE

\* a blank file pattern put before a pattern that excludes the file
C12_Witness ==
    /\ call.op = "shouldExcludeFile"
    /\ ret.done
    /\ call.arg = [file |-> FileB, pattern |-> <<" ", "\t", " ">>, field |-> "excludedFiles",
                   first |-> TRUE]
    /\ settings.excludedFiles = << <<"b", ".", "*">> >>
    /\ settings.excludedFolders = <<>>
    /\ ret.value = [without |-> TRUE, with |-> TRUE]

\* C13: a request started with no active file shows the notice and is over: it ran
\* no exclusion check, read nothing, filled and generated no archive, saved nothing,
\* and takes no further step.
C13_NoActiveNoWork ==
    \A r \in Requests :
        (activeFile[r] = NoFile /\ pc[r] \notin {"unused", "idle"})
        => /\ pc[r] = "done"
           /\ notice[r] = "No active note to share."
           /\ notesSet[r] = <<>>
           /\ stack[r] = <<>>
           /\ cfgLog[r] = {}
           /\ excludedLog[r] = {}
           /\ readLog[r] = <<>>
           /\ zip[r] = {}
           /\ zipIdx[r] = 0
           /\ saved[r] = <<>>
           /\ ~ENABLED (RunStep(r) \/ RunFailure(r))

C13_Witness ==
    /\ pc[1] = "done"
    /\ activeFile[1] = NoFile
    /\ notice[1] = "No active note to share."
    /\ saved[1] = <<>>
    /\ tabEvents = 1

\* the text files of a notesSet, in insertion order
TextFiles(set) == SelectSeq(set, LAMBDA file : ~BinaryMemo[file])

\* C14: in a traversal a file is in notesSet before its content is read for links
\* (while its read is pending it is in the set and not yet read), every file is read
\* at most once, and the files read are the text files of the set in the order they
\* were added, the last one possibly still unread.
C14_AddedBeforeReadOnce ==
    \A r \in Requests :
        /\ \A file \in Files : Reads(r, file) <= 1
        /\ \A i \in 1..Len(readLog[r]) : Has(notesSet[r], readLog[r][i])
        /\ pc[r] = "read"
           => /\ Has(notesSet[r], stack[r][Len(stack[r])].file)
              /\ Reads(r, stack[r][Len(stack[r])].file) = 0
        /\ Len(readLog[r]) <= Len(TextFiles(notesSet[r]))
        /\ Len(TextFiles(notesSet[r])) <= Len(readLog[r]) + 1
        /\ SubSeq(TextFiles(notesSet[r]), 1, Len(readLog[r])) = readLog[r]

\* t/b.md is linked from a.md and from c.md, and d.md links to itself
C14_Witness ==
    /\ TraversalDone(1)
    /\ vault = RevisitVault
    /\ activeFile[1] = FileA
    /\ notesSet[1] = <<FileA, FileB, FileD, FileC>>
    /\ readLog[1] = <<FileA, FileB, FileD, FileC>>

(***************************************************************************)
(* extractLinks on its own: contents made of up to MaxTokens tokens, each  *)
(* a link with the target it names, or a text the link pattern does not    *)
(* match (target <<>>).  No token ends with '[' or begins a match with the *)
(* next, so the matches of a content are the links among its tokens.       *)
(***************************************************************************)
MaxTokens == 3

LinkTokens ==
    {[text |-> <<"[", "[", "a", "]", "]">>, target |-> <<"a">>],
     [text |-> <<"[", "[", "a", ".", "m", "d", "]", "]">>, target |-> <<"a", ".", "m", "d">>],
     [text |-> <<"[", "[", "b", "|", "s", "e", "e", " ", "b", "]", "]">>, target |-> <<"b">>],
     [text |-> <<"[", "[", "z", "z", "]", "]">>, target |-> <<"z", "z">>],
     [text |-> <<"[", "[", "p", ".", "P", "N", "G", "]", "]">>, target |-> <<"p", ".", "P", "N", "G">>],
     [text |-> <<"x", " ">>, target |-> <<>>],
     [text |-> <<"[", "[", "]", "]">>, target |-> <<>>],
     [text |-> <<"[", "[", "a", "|", "]", "]">>, target |-> <<>>],
     [text |-> <<"[", "a", "]", "]">>, target |-> <<>>]}

RECURSIVE TextOf(_)
\* the content the tokens spell
TextOf(tokens) ==
    IF tokens = <<>> THEN <<>> ELSE Head(tokens).text \o TextOf(Tail(tokens))

InitLinks == InitCall("extractLinks", Strings(LinkTokens, MaxTokens), {DEFAULT_SETTINGS})

CallExtractLinks ==
    /\ ret' = [done |-> TRUE, value |-> extractLinks(TextOf(call.arg), Files)]
    /\ Returns("extractLinks")

SpecLinks == InitLinks /\ [][CallExtractLinks]_vars

\* the positions of the tokens that are links whose target the resolver resolves
ResolvedAt(tokens) ==
    {i \in 1..Len(tokens) :
        /\ tokens[i].target # <<>>
        /\ getFirstLinkpathDest(Files, tokens[i].target) # NoFile}

RECURSIVE ResolvedFrom(_, _)
\* the files the resolved links of tokens[i..] name, one per link, in order
ResolvedFrom(tokens, i) ==
    IF i > Len(tokens) THEN <<>>
    ELSE IF i \in ResolvedAt(tokens)
    THEN <<getFirstLinkpathDest(Files, tokens[i].target)>> \o ResolvedFrom(tokens, i + 1)
    ELSE ResolvedFrom(tokens, i + 1)

\* C15: extractLinks returns, in the order of the text, one file for every matched
\* link whose target resolves (a file linked twice is returned twice), and nothing
\* for a link that does not resolve or a text that is no link.
C15_ResolvedInOrder ==
    (call.op = "extractLinks" /\ ret.done)
    => /\ ret.value = ResolvedFrom(call.arg, 1)
       /\ Len(ret.value) = Cardinality(ResolvedAt(call.arg))

\* a.md linked twice around an unresolved link
C15_Witness ==
    /\ call.op = "extractLinks"
    /\ ret.done
    /\ TextOf(call.arg) = <<"[", "[", "a", ".", "m", "d", "]", "]", "[", "[", "z", "z", "]", "]", "[", "[", "a", "]", "]">>
    /\ ret.value = <<FileA, FileA>>

(***************************************************************************)
(* Two requests: the command is invoked a second time while the first      *)
(* request waits for the vault or for JSZip.  The settings tab stays       *)
(* closed.                                                                 *)
(***************************************************************************)
TwoVaults == {CycleVault, ChainVault, DiamondVault, RevisitVault}

TwoSettings ==
    {DEFAULT_SETTINGS, FolderSettings, SettingsOf(<<"p", "r", "i", "v", "a", "t", "e">>, <<"E", "x", "c", "l", "u", "d", "e", "d">>, <<>>, <<>>)}

InitTwo ==
    /\ vault \in TwoVaults
    /\ settings \in TwoSettings
    /\ InitRun({1, 2})
    /\ call = NoCall
    /\ ret = NoRet

SpecTwo == InitTwo /\ [][NextFixed]_vars

\* C16: with two requests interleaved at their awaits, vault and settings fixed,
\* each request collects in its own set: the finished set of each is the set the
\* request gives alone (the least closed set from its root), every member came
\* from its own root or its own reads, and it read every text file of its set
\* itself, whatever the other request had collected.
C16_OwnVisitedSet ==
    \A r \in Requests :
        /\ \A i \in 1..Len(notesSet[r]) :
            \/ notesSet[r][i] = activeFile[r]
            \/ \E j \in 1..Len(readLog[r]) :
                Contains(LinkedFilesMemo[vault[readLog[r][j]]][settings], notesSet[r][i])
        /\ TraversalDone(r)
           => /\ Range(notesSet[r]) = LeastSet(vault, activeFile[r], settings)
              /\ \A file \in Range(notesSet[r]) : BinaryMemo[file] \/ Reads(r, file) = 1

\* both requests are filling their archives at the same time, from different roots
C16_Witness ==
    /\ vault = RevisitVault
    /\ settings = DEFAULT_SETTINGS
    /\ pc[1] = "zipRead"
    /\ pc[2] = "zipRead"
    /\ notesSet[1] = <<FileA, FileB, FileD, FileC>>
    /\ notesSet[2] = <<FileC, FileB, FileD>>

\* the active file of r is excluded by the settings its request started with (the
\* root's check runs in the stretch that starts the request)
RootExcluded(r) ==
    /\ activeFile[r] # NoFile
    /\ shouldExcludeFile(activeFile[r], Frontmatter(activeFile[r]), startSettings[r])

\* C17: once the traversal is over the root is in notesSet exactly when it is not
\* excluded; with the root excluded nothing is collected and nothing is read, the
\* request goes on to generateAsync instead of stopping, and when it is done it has
\* saved one archive, named after the root, with no entry.
C17_ExcludedRootEmptyArchive ==
    \A r \in Requests :
        /\ TraversalDone(r) => (Has(notesSet[r], activeFile[r]) <=> ~RootExcluded(r))
        /\ RootExcluded(r)
           => /\ notesSet[r] = <<>>
              /\ readLog[r] = <<>>
              /\ zip[r] = {}
              /\ pc[r] \in {"collect", "zip", "generate", "done", "failed"}
              /\ pc[r] = "zip" => ENABLED ZipGenerate(r)
              /\ pc[r] = "generate" => ENABLED GenerateDone(r)
              /\ pc[r] = "done"
                 => saved[r] = <<[name |-> FileBasename(activeFile[r]) \o <<".", "z", "i", "p">>,
                                  entries |-> {}]>>

C17_Witness ==
    /\ pc[1] = "done"
    /\ activeFile[1] = FileB
    /\ startSettings[1] = FolderSettings
    /\ excludedLog[1] = {FileB}
    /\ saved[1] = <<[name |-> <<"b", ".", "z", "i", "p">>, entries |-> {}]>>
    /\ notice[1] = "ZIP created"
====
